---- MODULE Spec2Model ----
(***************************************************************************)
(* Model of packages/utils/lib/Git/Git.js: the Git workflow class with its *)
(* three public operations prepare(), commit() and publish().              *)
(*                                                                         *)
(* Strings that the code inspects character by character (the output of    *)
(* `git ls-remote --refs`, version strings, branch names, error messages   *)
(* of a failed pull) are sequences of one-character strings.  Strings that *)
(* the code only stores, compares and tests for truthiness (cache values,  *)
(* logins, URLs) are TLA+ strings; NULL stands for null/undefined and ""   *)
(* for the empty string, the two falsy values such a string can take.  For *)
(* a character string the empty sequence NoStr stands for all of null,     *)
(* undefined and '': the code only tests such a value for truthiness.      *)
(***************************************************************************)
EXTENDS Integers, Sequences, FiniteSets, TLC

----------------------------------------------------------------------------
(* Bounds of the model *)

\* longest `ls-remote` output, in ref lines, of the branch-resolution unit runs
MaxRefs == 3
\* longest `ls-remote` output, in ref lines, of the commit() runs
MaxCommitRefs == 3
\* number of prepare() calls in one behaviour
MaxRuns == 2
\* number of empty answers the operator may give to the commit-message prompt
MaxEmptyAnswers == 1

----------------------------------------------------------------------------
(* Constants of Git.js *)

NULL == "null"

GIT_SERVER_FILE == ".git_server"
GIT_TOKEN_FILE == ".git_token"
GIT_LOGIN_FILE == ".git_login"
GIT_OWN_FILE == ".git_own"
GIT_PUBLISH_FILE == ".git_publish"
CacheFiles ==
    {GIT_SERVER_FILE, GIT_TOKEN_FILE, GIT_LOGIN_FILE, GIT_OWN_FILE, GIT_PUBLISH_FILE}

REPO_OWNER_USER == "user"
REPO_OWNER_ORG == "org"
GITHUB == "github"
GITEE == "gitee"

VERSION_RELEASE == <<"r", "e", "l", "e", "a", "s", "e">>
VERSION_DEVELOP == <<"d", "e", "v">>

GIT_SERVER_TYPE == {GITHUB, GITEE}
GIT_OWNER_TYPE == {REPO_OWNER_USER, REPO_OWNER_ORG}
GIT_OWNER_TYPE_ONLY == {REPO_OWNER_USER}
GIT_PUBLISH_TYPE == {"oss"}

\* JavaScript truthiness of a string-or-null value
Falsy(v) == v = NULL \/ v = ""

\* a falsy character string: null, undefined or ''
NoStr == <<>>

----------------------------------------------------------------------------
(* Character strings *)

Digits == {"0", "1", "2", "3", "4", "5", "6", "7", "8", "9"}

MASTER == <<"m", "a", "s", "t", "e", "r">>
REFS_HEADS_DEV ==
    <<"r", "e", "f", "s", "/", "h", "e", "a", "d", "s", "/", "d", "e", "v", "/">>
REFS_TAGS_RELEASE ==
    <<"r", "e", "f", "s", "/", "t", "a", "g", "s", "/",
      "r", "e", "l", "e", "a", "s", "e", "/">>
REFS_HEADS_MASTER ==
    <<"r", "e", "f", "s", "/", "h", "e", "a", "d", "s", "/",
      "m", "a", "s", "t", "e", "r">>

\* sub occurs in str at the 1-based position p
IsPrefixAt(sub, str, p) ==
    /\ p >= 1
    /\ p + Len(sub) - 1 <= Len(str)
    /\ \A k \in 1..Len(sub) : str[p + k - 1] = sub[k]

\* String.prototype.indexOf(sub) >= 0
Contains(str, sub) == \E p \in 1..(Len(str) + 1) : IsPrefixAt(sub, str, p)

\* String.prototype.split('\n')
RECURSIVE SplitLines(_)
SplitLines(str) ==
    IF \E i \in 1..Len(str) : str[i] = "\n"
    THEN LET i == CHOOSE j \in 1..Len(str) :
                    /\ str[j] = "\n"
                    /\ \A k \in 1..(j - 1) : str[k] # "\n"
         IN  <<SubSeq(str, 1, i - 1)>> \o SplitLines(SubSeq(str, i + 1, Len(str)))
    ELSE <<str>>

\* length of the longest run of digits of str that starts at position p (\d+, greedy)
RECURSIVE DigitRun(_, _)
DigitRun(str, p) ==
    IF p <= Len(str) /\ str[p] \in Digits THEN 1 + DigitRun(str, p + 1) ELSE 0

\* the length of the match of \d+\.\d+\.\d+ at position p of str, 0 if there is none
VersionMatchLen(str, p) ==
    LET n1 == DigitRun(str, p)
        p2 == p + n1 + 1
        n2 == DigitRun(str, p2)
        p3 == p2 + n2 + 1
        n3 == DigitRun(str, p3)
    IN  IF /\ n1 >= 1
           /\ p + n1 <= Len(str) /\ str[p + n1] = "."
           /\ n2 >= 1
           /\ p2 + n2 <= Len(str) /\ str[p2 + n2] = "."
           /\ n3 >= 1
        THEN n1 + 1 + n2 + 1 + n3
        ELSE 0

\* a numeric identifier of a semantic version: digits without a leading zero
NumericIdentifier(s) ==
    /\ Len(s) >= 1
    /\ \A k \in 1..Len(s) : s[k] \in Digits
    /\ (Len(s) > 1 => s[1] # "0")

(* semver.valid(v) for the strings of this model (digits, dots and letters; *)
(* none holds "v", "=", "-", "+" or a blank): v itself when it is           *)
(* MAJOR.MINOR.PATCH with three numeric identifiers, null otherwise.        *)
semverValid(v) ==
    LET n1 == DigitRun(v, 1)
        n2 == DigitRun(v, n1 + 2)
        n3 == DigitRun(v, n1 + n2 + 3)
    IN  IF /\ VersionMatchLen(v, 1) = Len(v)
           /\ Len(v) > 0
           /\ NumericIdentifier(SubSeq(v, 1, n1))
           /\ NumericIdentifier(SubSeq(v, n1 + 2, n1 + n2 + 1))
           /\ NumericIdentifier(SubSeq(v, n1 + n2 + 3, n1 + n2 + n3 + 2))
        THEN v
        ELSE NoStr

----------------------------------------------------------------------------
(* The regular expressions of getRemoteBranchList *)

(* RegExp.prototype.exec of /.+?<literal>(\d+\.\d+\.\d+)/g on str, the      *)
(* search starting at the expression's lastIndex (0-based).  `.+?` takes at *)
(* least one character, so the literal starts at a 0-based offset of at     *)
(* least lastIndex + 1; the lazy quantifier stops at the first offset where *)
(* the rest matches.  A match leaves lastIndex at the end of the match; a   *)
(* failure resets it to 0.                                                  *)
RegExec(literal, str, lastIndex) ==
    LET Starts == {p \in (lastIndex + 2)..Len(str) :
                      /\ IsPrefixAt(literal, str, p)
                      /\ VersionMatchLen(str, p + Len(literal)) > 0}
    IN  IF lastIndex > Len(str) \/ Starts = {}
        THEN [match |-> FALSE, group1 |-> <<>>, lastIndex |-> 0]
        ELSE LET p == CHOOSE q \in Starts : \A r \in Starts : q <= r
                 v == p + Len(literal)
                 n == VersionMatchLen(str, v)
             IN  [match |-> TRUE,
                  group1 |-> SubSeq(str, v, v + n - 1),
                  lastIndex |-> v + n - 1]

\* the literal part of the expression chosen for the channel `type`
RefLiteral(type) == IF type = VERSION_RELEASE THEN REFS_TAGS_RELEASE ELSE REFS_HEADS_DEV

(* remoteList.split('\n').map(...) with the one expression object `reg`     *)
(* shared by all lines: the lastIndex an exec leaves is the one the exec on *)
(* the next line starts from.  The result holds NoStr where the callback    *)
(* returned undefined.                                                      *)
RECURSIVE MapLines(_, _, _)
MapLines(lines, literal, lastIndex) ==
    IF lines = <<>>
    THEN <<>>
    ELSE LET m == RegExec(literal, Head(lines), lastIndex)
             out == IF m.match /\ semverValid(m.group1) # NoStr THEN m.group1 ELSE NoStr
         IN  <<out>> \o MapLines(Tail(lines), literal, m.lastIndex)

\* Array.prototype.filter(_ => _) on the result of the map
FilterTruthy(seq) == SelectSeq(seq, LAMBDA e : e # NoStr)

\* getRemoteBranchList(type) on the output remoteList of `git ls-remote --refs`
getRemoteBranchList(type, remoteList) ==
    FilterTruthy(MapLines(SplitLines(remoteList), RefLiteral(type), 0))

\* checkRemoteMaster() on the output remoteList of `git ls-remote --refs`
checkRemoteMaster(remoteList) == Contains(remoteList, REFS_HEADS_MASTER)

\* the branch name getCorrectVersion(type) builds: `${type || VERSION_DEVELOP}/${version}`
BranchName(type, version) ==
    (IF type = NoStr THEN VERSION_DEVELOP ELSE type) \o <<"/">> \o version

----------------------------------------------------------------------------
(* Error messages of a failed `git pull` *)

PERMISSION_DENIED ==
    <<"P", "e", "r", "m", "i", "s", "s", "i", "o", "n", " ", "d", "e", "n",
      "i", "e", "d", " ", "(", "p", "u", "b", "l", "i", "c", "k", "e", "y",
      ")">>
COULDNT_FIND_REMOTE_REF ==
    <<"C", "o", "u", "l", "d", "n", "'", "t", " ", "f", "i", "n", "d", " ",
      "r", "e", "m", "o", "t", "e", " ", "r", "e", "f", " ">>
FATAL == <<"f", "a", "t", "a", "l", ":", " ">>
UNABLE_TO_ACCESS ==
    <<"u", "n", "a", "b", "l", "e", " ", "t", "o", " ", "a", "c", "c", "e",
      "s", "s", " ", "t", "h", "e", " ", "r", "e", "m", "o", "t", "e">>

\* the messages git gives for the three kinds of failure of `git pull origin <branchName>`
MsgPermissionDenied == PERMISSION_DENIED \o <<".">>
MsgNoRemoteRef(branchName) == FATAL \o COULDNT_FIND_REMOTE_REF \o branchName
MsgOther == FATAL \o UNABLE_TO_ACCESS

(* The catch handler of pullRemoteRepo on the error message: "throw" when   *)
(* it raises the SSH remediation error, otherwise what it logs ("notice" or *)
(* "error") before it goes on to process.exit(0).                           *)
PullCatch(message, branchName) ==
    IF Contains(message, PERMISSION_DENIED)
    THEN "throw"
    ELSE IF Contains(message, COULDNT_FIND_REMOTE_REF \o branchName)
         THEN "notice"
         ELSE "error"

\* what follows the handler's if/else chain: process.exit(0), unless it threw
PullCatchEnd(logged) == IF logged = "throw" THEN "failed" ELSE "exited"

----------------------------------------------------------------------------
(* State *)

VARIABLES
    pc,             \* the step the running operation executes next
    op,             \* the public operation running or last run
    err,            \* the error a failed operation raised
    version,        \* constructor: this.version
    refreshToken,   \* constructor: this.refreshToken
    refreshOwner,   \* constructor: this.refreshOwner
    refreshServer,  \* constructor: this.refreshServer
    gitServer,      \* this.gitServer: the client, with the token bound to it
    token,          \* this.token
    user,           \* this.user: the login of the user, or NULL
    orgs,           \* this.orgs: the logins of the user's organizations
    owner,          \* this.owner
    login,          \* this.login
    repo,           \* this.repo
    remote,         \* this.remote
    branch,         \* this.branch
    cache,          \* the cache files under <homePath>/.git
    gitDir,         \* whether <dir>/.git exists
    originUrl,      \* the URL of the remote `origin` of the local repository
    ignoreFile,     \* whether <dir>/.gitignore exists
    status,         \* what `git status` reports
    stashList,      \* the number of stash entries
    localBranches,  \* the local branches
    currentBranch,  \* the branch checked out
    staged,         \* the paths staged in the index
    commitOn,       \* the local branches whose history holds this operation's commit
    remoteList,     \* the output of `git ls-remote --refs`
    gitLog,         \* the calls made on this.git, by this operation, in order
    hostLog,        \* the calls made on this.gitServer, by this operation, in order
    prompts,        \* the prompts issued by this operation, with their answers
    writes,         \* the files written by this operation
    run,            \* the number of Git objects constructed so far
    prev,           \* how the previous object's prepare() ended
    type,           \* the argument of getCorrectVersion / getRemoteBranchList
    branchList,     \* the list getRemoteBranchList returned last
    build,          \* the phases of the build collaborator started so far
    caught          \* the message of the error the last pull failed with

flagVars == <<version, refreshToken, refreshOwner, refreshServer>>
hostVars == <<gitServer, token, user, orgs, owner, login, repo>>
localVars ==
    <<gitDir, originUrl, ignoreFile, status, stashList, localBranches, currentBranch,
      staged, commitOn>>
runVars == <<run, prev>>
unitVars == <<type, branchList>>
vars == <<pc, op, err, flagVars, hostVars, remote, branch, cache, localVars,
          remoteList, gitLog, hostLog, prompts, writes, runVars, unitVars, build,
          caught>>

GIT_IGNORE_FILE == ".gitignore"

\* createGitServer(gitServer)
NoServer == [type |-> NULL, token |-> NULL]
createGitServer(value) ==
    IF value = GITHUB \/ value = GITEE THEN [type |-> value, token |-> NULL] ELSE NoServer

\* this.gitServer.getRemote(login, name): the URL is a function of platform and login
NoRemote == [server |-> NULL, login |-> NULL]
getRemote(server, loginName) == [server |-> server.type, login |-> loginName]

\* a repository descriptor: the platform and the account that owns the repository
NoRepo == [server |-> NULL, owner |-> NULL]

(* The accounts of the operator: one on each platform, the one on the       *)
(* first platform a member of one organization, the other of none.          *)
UserLogin(serverType) == IF serverType = GITHUB THEN "gh_user" ELSE "ge_user"
OrgLogins(serverType) == IF serverType = GITHUB THEN {"gh_org"} ELSE {}

\* what the operator may type at the token prompt (defaultValue: '')
TokenAnswers == {"", "tok"}
\* what the operator may type at the commit-message prompt (defaultValue: '')
MessageAnswers == {"", "msg"}

\* the paths of the working tree
Paths == {"f1", "f2"}
StatusLists == {"not_added", "created", "deleted", "modified", "renamed"}
CleanStatus ==
    [conflicted |-> {}, not_added |-> {}, created |-> {}, deleted |-> {},
     modified |-> {}, renamed |-> {}]

\* the resolved context of a prepare()
Context ==
    [server |-> gitServer.type, token |-> token, owner |-> owner, login |-> login,
     remote |-> remote]
NoContext ==
    [server |-> NULL, token |-> NULL, owner |-> NULL, login |-> NULL,
     remote |-> NoRemote]
NoPrev == [ok |-> FALSE, ctx |-> NoContext, partialInit |-> FALSE, rejected |-> NULL]

\* the operation ended: it returned, it threw, or the process exited
Ended == pc \in {"done", "failed", "exited"}

Throw(e) == pc' = "failed" /\ err' = e

----------------------------------------------------------------------------
(* Construction *)

\* the fields the constructor sets, for the flags and the version given to it
Constructed(v, rToken, rOwner, rServer) ==
    /\ version' = v
    /\ refreshToken' = rToken
    /\ refreshOwner' = rOwner
    /\ refreshServer' = rServer
    /\ owner' = REPO_OWNER_USER
    /\ login' = NULL
    /\ repo' = NoRepo
    /\ gitServer' = NoServer
    /\ token' = NULL
    /\ user' = NULL
    /\ orgs' = {}
    /\ remote' = NoRemote
    /\ branch' = NoStr

(* What an invocation leaves for the account of the next one: whether its  *)
(* prepare() completed, whether it stopped inside init() after `git init`,  *)
(* and whether it stopped at the identity lookup with a token it had asked. *)
PrepareCompleted == (op = "prepare" /\ pc = "done") \/ op \in {"commit", "publish"}
InitStopped ==
    /\ op = "prepare"
    /\ pc \in {"failed", "exited"}
    /\ \E i \in 1..Len(gitLog) : gitLog[i][2] = "init"
TokenRejected ==
    /\ op = "prepare"
    /\ pc = "failed"
    /\ err = "IdentityResolutionFailed"
    /\ \E i \in 1..Len(prompts) : prompts[i][1] = "token"

(* A later invocation of the tool: a new Git object on the same directory   *)
(* and the same cache, with flags of its own.                               *)
Construct ==
    /\ Ended
    /\ run < MaxRuns
    /\ \E rToken \in BOOLEAN, rOwner \in BOOLEAN, rServer \in BOOLEAN :
          Constructed(version, rToken, rOwner, rServer)
    /\ run' = run + 1
    /\ prev' = [ok |-> PrepareCompleted,
                ctx |-> IF PrepareCompleted THEN Context ELSE NoContext,
                partialInit |-> prev.partialInit \/ InitStopped,
                rejected |-> IF TokenRejected THEN token ELSE NULL]
    /\ pc' = "constructed"
    /\ op' = "none"
    /\ err' = NULL
    /\ gitLog' = <<>>
    /\ hostLog' = <<>>
    /\ prompts' = <<>>
    /\ writes' = {}
    /\ build' = <<>>
    /\ caught' = NoStr
    /\ UNCHANGED <<cache, localVars, remoteList, unitVars>>

----------------------------------------------------------------------------
(* prepare() *)

(* prepare() is called; checkHomePath runs first.  Once ensureDirSync has   *)
(* returned the directory exists, and existsSync finds it.                  *)
CheckHomePath ==
    /\ pc = "constructed"
    /\ op' = "prepare"
    /\ pc' = "checkGitServer"
    /\ UNCHANGED <<err, flagVars, hostVars, remote, branch, cache, localVars, remoteList,
                   gitLog, hostLog, prompts, writes, runVars, unitVars, build, caught>>

\* the conditions under which a step asks the operator instead of using the cache
\* mutant of AskServer: the token's refresh flag forces the platform prompt too
AskServer_OnTokenRefresh(cached, refresh) == Falsy(cached) \/ refresh \/ refreshToken
AskServer(cached, refresh) == Falsy(cached) \/ refresh
\* mutant of AskToken: the refresh flag is not consulted
AskToken_IgnoresRefresh(cached, refresh) == Falsy(cached)
AskToken(cached, refresh) == Falsy(cached) \/ refresh
\* mutant of AskOwner: the refresh flag is not consulted
AskOwner_IgnoresRefresh(cachedOwner, cachedLogin, refresh) ==
    Falsy(cachedOwner) \/ Falsy(cachedLogin)
AskOwner(cachedOwner, cachedLogin, refresh) ==
    Falsy(cachedOwner) \/ Falsy(cachedLogin) \/ refresh

\* writeFile(path, value) of a cache file, or of several
WriteCache(entries) ==
    /\ cache' = [f \in CacheFiles |->
                    IF f \in DOMAIN entries THEN entries[f] ELSE cache[f]]
    /\ writes' = writes \cup DOMAIN entries

CheckGitServer ==
    /\ pc = "checkGitServer"
    /\ LET cached == cache[GIT_SERVER_FILE]
       IN  IF AskServer(cached, refreshServer)
           THEN \E answer \in GIT_SERVER_TYPE :
                   /\ prompts' = Append(prompts, <<"server", answer>>)
                   /\ WriteCache([f \in {GIT_SERVER_FILE} |-> answer])
                   /\ gitServer' = createGitServer(answer)
           ELSE /\ gitServer' = createGitServer(cached)
                /\ UNCHANGED <<prompts, cache, writes>>
    /\ pc' = "checkGitToken"
    /\ UNCHANGED <<op, err, flagVars, token, user, orgs, owner, login, repo, remote,
                   branch, localVars, remoteList, gitLog, hostLog, runVars, unitVars,
                   build, caught>>

CheckGitToken ==
    /\ pc = "checkGitToken"
    /\ LET cached == cache[GIT_TOKEN_FILE]
       IN  IF AskToken(cached, refreshToken)
           THEN \E answer \in TokenAnswers :
                   /\ prompts' = Append(prompts, <<"token", answer>>)
                   /\ WriteCache([f \in {GIT_TOKEN_FILE} |-> answer])
                   /\ token' = answer
                   /\ gitServer' = [gitServer EXCEPT !.token = answer]
           ELSE /\ token' = cached
                /\ gitServer' = [gitServer EXCEPT !.token = cached]
                /\ UNCHANGED <<prompts, cache, writes>>
    /\ pc' = "checkUserAndOrgs"
    /\ UNCHANGED <<op, err, flagVars, user, orgs, owner, login, repo, remote, branch,
                   localVars, remoteList, gitLog, hostLog, runVars, unitVars, build, caught>>

\* mutant of UserMissing: a missing user is let through
UserMissing_Never(u) == FALSE
\* checkUserAndOrgs: `if (!this.user)`
UserMissing(u) == Falsy(u)

(* getUser() and getOrgs() are calls to the hosting platform: the user is   *)
(* the account of the operator on that platform, or null when the platform  *)
(* does not answer with one; the organizations are that account's.          *)
CheckUserAndOrgs ==
    /\ pc = "checkUserAndOrgs"
    /\ \E u \in {NULL, UserLogin(gitServer.type)} :
          /\ user' = u
          /\ orgs' = OrgLogins(gitServer.type)
          /\ IF UserMissing(u)
             THEN Throw("IdentityResolutionFailed")
             ELSE pc' = "checkGitOwner" /\ err' = err
          /\ hostLog' = hostLog \o <<(<<"getUser", NULL, u>>),
                                      (<<"getOrgs", NULL, OrgLogins(gitServer.type)>>)>>
    /\ UNCHANGED <<op, flagVars, gitServer, token, owner, login, repo, remote, branch,
                   cache, localVars, remoteList, gitLog, prompts, writes, runVars,
                   unitVars, build, caught>>

\* the choices of the owner prompt
OwnerChoices(organizations) ==
    IF Cardinality(organizations) > 0 THEN GIT_OWNER_TYPE ELSE GIT_OWNER_TYPE_ONLY

CheckGitOwner ==
    /\ pc = "checkGitOwner"
    /\ LET cachedOwner == cache[GIT_OWN_FILE]
           cachedLogin == cache[GIT_LOGIN_FILE]
       IN  IF AskOwner(cachedOwner, cachedLogin, refreshOwner)
           THEN \E o \in OwnerChoices(orgs) :
                   IF o = REPO_OWNER_USER
                   THEN /\ prompts' = Append(prompts, <<"owner", o>>)
                        /\ WriteCache([f \in {GIT_OWN_FILE, GIT_LOGIN_FILE} |->
                                          IF f = GIT_OWN_FILE THEN o ELSE user])
                        /\ owner' = o
                        /\ login' = user
                   ELSE \E l \in orgs :
                        /\ prompts' = prompts \o <<(<<"owner", o>>), (<<"login", l>>)>>
                        /\ WriteCache([f \in {GIT_OWN_FILE, GIT_LOGIN_FILE} |->
                                          IF f = GIT_OWN_FILE THEN o ELSE l])
                        /\ owner' = o
                        /\ login' = l
           ELSE /\ owner' = cachedOwner
                /\ login' = cachedLogin
                /\ UNCHANGED <<prompts, cache, writes>>
    /\ pc' = "checkRepo"
    /\ UNCHANGED <<op, err, flagVars, gitServer, token, user, orgs, repo, remote,
                   branch, localVars, remoteList, gitLog, hostLog, runVars, unitVars,
                   build, caught>>

\* mutant of CreateCall: the repository is always created under the user
CreateCall_AlwaysUser(ownerKind, loginName) == <<"createRepo", NULL>>
\* the creation call checkRepo makes for the owner kind
CreateCall(ownerKind, loginName) ==
    IF ownerKind = REPO_OWNER_USER
    THEN <<"createRepo", NULL>>
    ELSE <<"createOrgRepo", loginName>>

(* getRepo and the creation calls are calls to the hosting platform: each   *)
(* returns a descriptor or null.  createRepo(name) creates under the        *)
(* authenticated user, createOrgRepo(name, login) under the organization.   *)
CheckRepo ==
    /\ pc = "checkRepo"
    /\ \E found \in BOOLEAN, created \in BOOLEAN :
          LET call == CreateCall(owner, login)
              made == [server |-> gitServer.type,
                       owner |-> IF call[1] = "createRepo" THEN user ELSE login]
          IN  IF found
              THEN /\ repo' = [server |-> gitServer.type, owner |-> login]
                   /\ hostLog' = Append(hostLog, <<"getRepo", login, repo'>>)
                   /\ pc' = "checkGitIgnore"
                   /\ err' = err
              ELSE /\ hostLog' = hostLog \o
                          <<(<<"getRepo", login, NoRepo>>),
                            (<<call[1], call[2], IF created THEN made ELSE NoRepo>>)>>
                   /\ IF created
                      THEN repo' = made /\ pc' = "checkGitIgnore" /\ err' = err
                      ELSE repo' = repo /\ Throw("RemoteRepoCreationFailed")
    /\ UNCHANGED <<op, flagVars, gitServer, token, user, orgs, owner, login, remote,
                   branch, cache, localVars, remoteList, gitLog, prompts, writes,
                   runVars, unitVars, build, caught>>

CheckGitIgnore ==
    /\ pc = "checkGitIgnore"
    /\ IF ~ignoreFile
       THEN ignoreFile' = TRUE /\ writes' = writes \cup {GIT_IGNORE_FILE}
       ELSE UNCHANGED <<ignoreFile, writes>>
    /\ pc' = "init"
    /\ UNCHANGED <<op, err, flagVars, hostVars, remote, branch, cache, gitDir,
                   originUrl, status, stashList, localBranches, currentBranch, staged,
                   commitOn, remoteList, gitLog, hostLog, prompts, runVars, unitVars,
                   build, caught>>

----------------------------------------------------------------------------
(* The remote repository and the working tree *)

\* the stand-in for the object name that starts a line of `git ls-remote`, and the tab
SHA == <<"a", "\t">>
REFS_HEADS == <<"r", "e", "f", "s", "/", "h", "e", "a", "d", "s", "/">>

\* the line `git ls-remote --refs` prints for a ref
RefLine(ref) == SHA \o ref \o <<"\n">>

\* the remote has a ref of exactly that name: a line of the list ends with it
RemoteHasRef(list, ref) == Contains(list, <<"\t">> \o ref \o <<"\n">>)
RemoteHasBranch(list, branchName) == RemoteHasRef(list, REFS_HEADS \o branchName)

\* the conflicted paths a merge (a pull, a stash pop) may leave
MergeConflicts == {{}, {"f1"}}

(* The outcomes of `git pull origin <branchName>`: NoStr when it succeeds,  *)
(* otherwise the message of the error.  The pull of a branch the remote     *)
(* does not have fails with git's "Couldn't find remote ref" message.       *)
PullResults(list, branchName) ==
    {MsgPermissionDenied, MsgOther}
        \cup (IF RemoteHasBranch(list, branchName)
              THEN {NoStr}
              ELSE {MsgNoRemoteRef(branchName)})

\* a URL of origin that is not the one prepare() resolves
OtherUrl == [server |-> "other", login |-> "other"]

\* the options init() and commit() pass to pullRemoteRepo
ALLOW_UNRELATED_HISTORIES == "--allow-unrelated-histories"

----------------------------------------------------------------------------
(* The steps of init(), initCommit() and commit(): where each call returns  *)
(* to.  A label names the call that runs next and the method that makes it. *)

\* mutant of AfterPullBranch: the push follows the pull of the version branch
AfterPullBranch_Push == "commit.push"
\* pullRemoteMasterAndBranch(): what follows `await this.pullRemoteRepo(this.branch)`
AfterPullBranch == "pullBranch.checkConflicted"

Cont ==
    [s \in {"initCommit.checkConflicted", "initCommit.checkNotCommitted",
            "initCommit.message", "initCommit.pull", "initCommit.push",
            "commit.getCorrectVersion", "commit.checkStash",
            "commit.checkConflicted", "commit.checkNotCommitted", "commit.message",
            "commit.checkoutBranch", "pullMaster.pull", "pullMaster.checkConflicted",
            "pullBranch.pull", "pullBranch.checkConflicted", "commit.push",
            "unit.getCorrectVersion", "unit.getRemoteBranchList",
            "unit.checkConflicted", "unit.checkNotCommitted", "unit.message"} |->
        CASE s = "initCommit.checkConflicted" -> "initCommit.checkNotCommitted"
          [] s = "initCommit.checkNotCommitted" -> "initCommit.checkRemoteMaster"
          [] s = "initCommit.message" -> "initCommit.checkRemoteMaster"
          [] s = "commit.getCorrectVersion" -> "commit.checkStash"
          [] s = "commit.checkStash" -> "commit.checkConflicted"
          [] s = "commit.checkConflicted" -> "commit.checkNotCommitted"
          [] s = "commit.checkNotCommitted" -> "commit.checkoutBranch"
          [] s = "commit.message" -> "commit.checkoutBranch"
          [] s = "commit.checkoutBranch" -> "pullMaster.pull"
          [] s = "pullMaster.pull" -> "pullMaster.checkConflicted"
          [] s = "pullMaster.checkConflicted" -> "pullBranch.getRemoteBranchList"
          [] s = "pullBranch.pull" -> AfterPullBranch
          [] s = "pullBranch.checkConflicted" -> "commit.push"
          [] OTHER -> "done"]

\* the prompt loop of each call of checkNotCommitted
MessageSite ==
    [s \in {"initCommit.checkNotCommitted", "commit.checkNotCommitted",
            "unit.checkNotCommitted"} |->
        CASE s = "initCommit.checkNotCommitted" -> "initCommit.message"
          [] s = "commit.checkNotCommitted" -> "commit.message"
          [] s = "unit.checkNotCommitted" -> "unit.message"]

\* the branch each call of pullRemoteRepo / pushRemoteRepo names, and the pull's options
SiteBranch(s) ==
    IF s \in {"initCommit.pull", "initCommit.push", "pullMaster.pull"}
    THEN MASTER
    ELSE branch
SiteOptions(s) == IF s = "initCommit.pull" THEN ALLOW_UNRELATED_HISTORIES ELSE ""

(* A call on this.git is logged with the method that made it and its       *)
(* argument; a call that only reads (status, listRemote) with what it       *)
(* returned.                                                                *)
Log(by, call, arg) == gitLog' = Append(gitLog, <<by, call, arg>>)

----------------------------------------------------------------------------
(* init() and initCommit() *)

\* the status of the working tree after `git init`: everything is untracked
FreshStatus == [CleanStatus EXCEPT !.not_added = {GIT_IGNORE_FILE, "f1"}]

(* init().  `git init` makes a repository whose remotes are those of the    *)
(* environment's template, as a rule none; addRemote, as any git call, may  *)
(* fail.                                                                    *)
GitInit ==
    /\ pc = "init"
    /\ remote' = getRemote(gitServer, login)
    /\ IF gitDir
       THEN /\ pc' = "done"
            /\ UNCHANGED <<err, gitDir, originUrl, status, currentBranch, gitLog>>
       ELSE /\ gitDir' = TRUE
            /\ status' = FreshStatus
            /\ currentBranch' = MASTER
            /\ \E hasOrigin \in BOOLEAN, addFails \in BOOLEAN :
                  IF hasOrigin
                  THEN /\ gitLog' = gitLog \o <<(<<"init", "init", NULL>>),
                                                (<<"init", "getRemotes", NULL>>)>>
                       /\ originUrl' = OtherUrl
                       /\ pc' = "initCommit.checkConflicted"
                       /\ err' = err
                  ELSE /\ gitLog' = gitLog \o <<(<<"init", "init", NULL>>),
                                                (<<"init", "getRemotes", NULL>>),
                                                (<<"init", "addRemote", remote'>>)>>
                       /\ IF addFails
                          THEN originUrl' = originUrl /\ Throw("GitError")
                          ELSE /\ originUrl' = remote'
                               /\ pc' = "initCommit.checkConflicted"
                               /\ err' = err
    /\ UNCHANGED <<op, flagVars, hostVars, branch, cache, ignoreFile, stashList,
                   localBranches, staged, commitOn, remoteList, hostLog, prompts,
                   writes, runVars, unitVars, build, caught>>

\* initCommit(): `if (await this.checkRemoteMaster())`
CheckRemoteMaster ==
    /\ pc = "initCommit.checkRemoteMaster"
    /\ Log("checkRemoteMaster", "listRemote", remoteList)
    /\ pc' = IF checkRemoteMaster(remoteList) THEN "initCommit.pull" ELSE "initCommit.push"
    /\ UNCHANGED <<op, err, flagVars, hostVars, remote, branch, cache, localVars,
                   remoteList, hostLog, prompts, writes, runVars, unitVars, build,
                   caught>>

----------------------------------------------------------------------------
(* checkConflicted() and checkNotCommitted() *)

\* mutant of Conflicted: a single conflicted path is let through
Conflicted_MoreThanOne(st) == Cardinality(st.conflicted) > 1
\* status.conflicted.length > 0
Conflicted(st) == Cardinality(st.conflicted) > 0

CheckConflicted ==
    /\ pc \in {"initCommit.checkConflicted", "commit.checkConflicted",
               "pullMaster.checkConflicted", "pullBranch.checkConflicted",
               "unit.checkConflicted"}
    /\ Log("checkConflicted", "status", status.conflicted)
    /\ IF Conflicted(status)
       THEN Throw("UnresolvedConflict")
       ELSE pc' = Cont[pc] /\ err' = err
    /\ UNCHANGED <<op, flagVars, hostVars, remote, branch, cache, localVars, remoteList,
                   hostLog, prompts, writes, runVars, unitVars, build, caught>>

\* mutant of NotCommitted: renamed paths are not looked at
NotCommitted_WithoutRenamed(st) ==
    \/ Cardinality(st.not_added) > 0
    \/ Cardinality(st.created) > 0
    \/ Cardinality(st.deleted) > 0
    \/ Cardinality(st.modified) > 0
\* the condition under which checkNotCommitted stages and commits
NotCommitted(st) ==
    \/ Cardinality(st.not_added) > 0
    \/ Cardinality(st.created) > 0
    \/ Cardinality(st.deleted) > 0
    \/ Cardinality(st.modified) > 0
    \/ Cardinality(st.renamed) > 0

\* the lists checkNotCommitted passes to git.add, in order
AddedLists == <<"not_added", "created", "deleted", "modified", "renamed">>

\* checkNotCommitted(), to the first prompt for the commit message
CheckNotCommitted ==
    /\ pc \in DOMAIN MessageSite
    /\ IF NotCommitted(status)
       THEN /\ gitLog' = gitLog \o <<(<<"checkNotCommitted", "status", status>>)>>
                           \o [i \in 1..Len(AddedLists) |->
                                 <<"checkNotCommitted", "add", status[AddedLists[i]]>>]
            /\ staged' = staged \cup
                           UNION {status[AddedLists[i]] : i \in 1..Len(AddedLists)}
            /\ pc' = MessageSite[pc]
       ELSE /\ Log("checkNotCommitted", "status", status)
            /\ staged' = staged
            /\ pc' = Cont[pc]
    /\ UNCHANGED <<op, err, flagVars, hostVars, remote, branch, cache, gitDir,
                   originUrl, ignoreFile, status, stashList, localBranches,
                   currentBranch, commitOn, remoteList, hostLog, prompts, writes,
                   runVars, unitVars, build, caught>>

\* the number of empty answers given to the commit-message prompt so far
EmptyAnswers ==
    Cardinality({i \in 1..Len(prompts) : prompts[i] = <<"message", "">>})

\* the status once the staged paths are committed
Committed(st, paths) ==
    [l \in DOMAIN st |-> IF l = "conflicted" THEN st[l] ELSE st[l] \ paths]

\* mutant of AskAgain: any answer ends the loop
AskAgain_Never(message) == FALSE
\* checkNotCommitted: `while (!message)`
AskAgain(message) == Falsy(message)

(* One turn of `while (!message)`: the prompt and, once the answer is       *)
(* truthy, git.commit(message).                                             *)
CommitMessage ==
    /\ pc \in {"initCommit.message", "commit.message", "unit.message"}
    /\ \E answer \in MessageAnswers :
          /\ answer = "" => EmptyAnswers < MaxEmptyAnswers
          /\ prompts' = Append(prompts, <<"message", answer>>)
          /\ IF AskAgain(answer)
             THEN UNCHANGED <<pc, gitLog, status, staged, commitOn>>
             ELSE /\ Log("checkNotCommitted", "commit", answer)
                  /\ status' = Committed(status, staged)
                  /\ staged' = {}
                  /\ commitOn' = {currentBranch}
                  /\ pc' = Cont[pc]
    /\ UNCHANGED <<op, err, flagVars, hostVars, remote, branch, cache, gitDir,
                   originUrl, ignoreFile, stashList, localBranches, currentBranch,
                   remoteList, hostLog, writes, runVars, unitVars, build, caught>>

----------------------------------------------------------------------------
(* pullRemoteRepo() and pushRemoteRepo() *)

PullRemoteRepo ==
    /\ pc \in {"initCommit.pull", "pullMaster.pull", "pullBranch.pull"}
    /\ Log("pullRemoteRepo", "pull", <<SiteBranch(pc), SiteOptions(pc)>>)
    /\ \E result \in PullResults(remoteList, SiteBranch(pc)) :
          /\ caught' = result
          /\ IF result = NoStr
             THEN /\ \E c \in MergeConflicts :
                        status' = [status EXCEPT !.conflicted = c]
                  /\ pc' = Cont[pc]
                  /\ err' = err
             ELSE /\ status' = status
                  /\ pc' = PullCatchEnd(PullCatch(result, SiteBranch(pc)))
                  /\ err' = IF PullCatch(result, SiteBranch(pc)) = "throw"
                            THEN "SSHKeyMissing"
                            ELSE err
    /\ UNCHANGED <<op, flagVars, hostVars, remote, branch, cache, gitDir, originUrl,
                   ignoreFile, stashList, localBranches, currentBranch, staged,
                   commitOn, remoteList, hostLog, prompts, writes, runVars, unitVars,
                   build>>

\* pushRemoteRepo(branchName): a failed push propagates
PushRemoteRepo ==
    /\ pc \in {"initCommit.push", "commit.push"}
    /\ Log("pushRemoteRepo", "push", SiteBranch(pc))
    /\ \E pushed \in BOOLEAN :
          IF pushed
          THEN /\ remoteList' =
                     IF RemoteHasBranch(remoteList, SiteBranch(pc))
                     THEN remoteList
                     ELSE remoteList \o RefLine(REFS_HEADS \o SiteBranch(pc))
               /\ pc' = Cont[pc]
               /\ err' = err
          ELSE /\ remoteList' = remoteList
               /\ Throw("PushFailed")
    /\ UNCHANGED <<op, flagVars, hostVars, remote, branch, cache, localVars, hostLog,
                   prompts, writes, runVars, unitVars, build, caught>>

----------------------------------------------------------------------------
(* commit() *)

\* commit() is called on the object that prepare() has run on
Commit ==
    /\ pc = "done"
    /\ op = "prepare"
    /\ op' = "commit"
    /\ pc' = "commit.getCorrectVersion"
    /\ type' = NoStr
    /\ gitLog' = <<>>
    /\ hostLog' = <<>>
    /\ prompts' = <<>>
    /\ writes' = {}
    /\ UNCHANGED <<err, flagVars, hostVars, remote, branch, cache, localVars,
                   remoteList, runVars, branchList, build, caught>>

\* Array.prototype.indexOf(value) >= 0
InList(list, value) == \E i \in 1..Len(list) : list[i] = value

\* getCorrectVersion(type)
GetCorrectVersion ==
    /\ pc \in {"commit.getCorrectVersion", "unit.getCorrectVersion"}
    /\ Log("getRemoteBranchList", "listRemote", remoteList)
    /\ branchList' = getRemoteBranchList(type, remoteList)
    /\ branch' = BranchName(type, version)
    /\ pc' = Cont[pc]
    /\ UNCHANGED <<op, err, flagVars, hostVars, remote, cache, localVars, remoteList,
                   hostLog, prompts, writes, runVars, type, build, caught>>

(* checkStash().  The stash pop applies the stashed changes to the working  *)
(* tree and, as a merge, may leave conflicted paths.                        *)
CheckStash ==
    /\ pc = "commit.checkStash"
    /\ IF stashList > 0
       THEN /\ gitLog' = gitLog \o <<(<<"checkStash", "stashList", NULL>>),
                                     (<<"checkStash", "stash", "pop">>)>>
            /\ stashList' = stashList - 1
            /\ \E c \in MergeConflicts :
                  status' = [status EXCEPT !.conflicted = @ \cup c,
                                           !.modified = @ \cup ({"f1"} \ c)]
       ELSE /\ Log("checkStash", "stashList", NULL)
            /\ UNCHANGED <<stashList, status>>
    /\ pc' = Cont[pc]
    /\ UNCHANGED <<op, err, flagVars, hostVars, remote, branch, cache, gitDir,
                   originUrl, ignoreFile, localBranches, currentBranch, staged,
                   commitOn, remoteList, hostLog, prompts, writes, runVars, unitVars,
                   build, caught>>

\* checkoutBranch(): checkoutLocalBranch creates the branch at the commit checked out
CheckoutBranch ==
    /\ pc = "commit.checkoutBranch"
    /\ IF branch \in localBranches
       THEN /\ gitLog' = gitLog \o <<(<<"checkoutBranch", "branchLocal", NULL>>),
                                     (<<"checkoutBranch", "checkout", branch>>)>>
            /\ UNCHANGED <<localBranches, commitOn>>
       ELSE /\ gitLog' = gitLog \o <<(<<"checkoutBranch", "branchLocal", NULL>>),
                                     (<<"checkoutBranch", "checkoutLocalBranch", branch>>)>>
            /\ localBranches' = localBranches \cup {branch}
            /\ commitOn' = IF currentBranch \in commitOn
                           THEN commitOn \cup {branch}
                           ELSE commitOn
    /\ currentBranch' = branch
    /\ pc' = Cont[pc]
    /\ UNCHANGED <<op, err, flagVars, hostVars, remote, branch, cache, gitDir,
                   originUrl, ignoreFile, status, stashList, staged, remoteList,
                   hostLog, prompts, writes, runVars, unitVars, build, caught>>

(* pullRemoteMasterAndBranch(), after the pull of master and its conflict   *)
(* check: getRemoteBranchList() and the test on this.version.  The unit     *)
(* call of getRemoteBranchList(type) returns its list.                      *)
CheckRemoteBranch ==
    /\ pc \in {"pullBranch.getRemoteBranchList", "unit.getRemoteBranchList"}
    /\ Log("getRemoteBranchList", "listRemote", remoteList)
    /\ LET list == getRemoteBranchList(IF pc = "unit.getRemoteBranchList"
                                       THEN type
                                       ELSE NoStr, remoteList)
       IN  /\ branchList' = list
           /\ pc' = IF pc = "unit.getRemoteBranchList"
                    THEN Cont[pc]
                    ELSE IF InList(list, version) THEN "pullBranch.pull" ELSE "commit.push"
    /\ UNCHANGED <<op, err, flagVars, hostVars, remote, branch, cache, localVars,
                   remoteList, hostLog, prompts, writes, runVars, type, build, caught>>

----------------------------------------------------------------------------
(* publish() *)

\* the condition under which publish asks the operator for the publish target
AskPublish(cached) == Falsy(cached)

\* publish(), to the construction of the build collaborator
Publish ==
    /\ pc = "done"
    /\ op \in {"prepare", "commit"}
    /\ op' = "publish"
    /\ LET cached == cache[GIT_PUBLISH_FILE]
       IN  IF AskPublish(cached)
           THEN \E answer \in GIT_PUBLISH_TYPE :
                   /\ prompts' = <<(<<"publish", answer>>)>>
                   /\ cache' = [cache EXCEPT ![GIT_PUBLISH_FILE] = answer]
                   /\ writes' = {GIT_PUBLISH_FILE}
                   /\ build' = <<(<<"new", answer>>)>>
           ELSE /\ prompts' = <<>>
                /\ writes' = {}
                /\ cache' = cache
                /\ build' = <<(<<"new", cached>>)>>
    /\ pc' = "cloudBuild.prepare"
    /\ gitLog' = <<>>
    /\ hostLog' = <<>>
    /\ UNCHANGED <<err, flagVars, hostVars, remote, branch, localVars, remoteList,
                   runVars, unitVars, caught>>

\* mutant of BuildPhases: init() is awaited before prepare()
BuildPhases_InitFirst == <<"cloudBuild.init", "cloudBuild.prepare", "cloudBuild.build">>
\* the phases of the build collaborator, in the order publish awaits them
BuildPhases == <<"cloudBuild.prepare", "cloudBuild.init", "cloudBuild.build">>
PhaseIndex(p) == CHOOSE i \in 1..Len(BuildPhases) : BuildPhases[i] = p

\* one awaited phase of the build collaborator: it returns or it throws
CloudBuildPhase ==
    /\ \E i \in 1..Len(BuildPhases) : pc = BuildPhases[i]
    /\ \E completed \in BOOLEAN :
          /\ build' = Append(build, <<pc, completed>>)
          /\ IF completed
             THEN /\ pc' = IF PhaseIndex(pc) < Len(BuildPhases)
                           THEN BuildPhases[PhaseIndex(pc) + 1]
                           ELSE "done"
                  /\ err' = err
             ELSE Throw("BuildFailed")
    /\ UNCHANGED <<op, flagVars, hostVars, remote, branch, cache, localVars, remoteList,
                   gitLog, hostLog, prompts, writes, runVars, unitVars, caught>>

----------------------------------------------------------------------------
(* The ref lists and version strings of the runs *)

V_1_0_0 == <<"1", ".", "0", ".", "0">>
V_1_0_1 == <<"1", ".", "0", ".", "1">>
V_1_0_10 == <<"1", ".", "0", ".", "1", "0">>
V_01_0_0 == <<"0", "1", ".", "0", ".", "0">>
V_1_2 == <<"1", ".", "2">>
V_x_y_z == <<"x", ".", "y", ".", "z">>

\* the version strings the constructor may be given
Versions == {V_1_0_0, V_1_0_1, V_1_2}

\* the refs of the remote the runs draw from
UnitRefs ==
    {REFS_HEADS_DEV \o V_1_0_0, REFS_HEADS_DEV \o V_1_0_1, REFS_HEADS_DEV \o V_1_0_10,
     REFS_HEADS_DEV \o V_x_y_z, REFS_HEADS_DEV \o V_01_0_0,
     REFS_TAGS_RELEASE \o V_1_0_0, REFS_HEADS_MASTER}
CommitRefs ==
    {REFS_HEADS_MASTER, REFS_HEADS_DEV \o V_1_0_0, REFS_HEADS_DEV \o V_1_0_1,
     REFS_HEADS_DEV \o V_x_y_z}

\* the sequences over S of at most n elements
RECURSIVE SeqsUpTo(_, _)
SeqsUpTo(S, n) ==
    IF n = 0
    THEN {<<>>}
    ELSE LET shorter == SeqsUpTo(S, n - 1)
         IN  shorter \cup {Append(q, x) : q \in shorter, x \in S}

\* the output of `git ls-remote --refs` for a sequence of refs
RECURSIVE LsRemote(_)
LsRemote(refs) ==
    IF refs = <<>> THEN <<>> ELSE RefLine(Head(refs)) \o LsRemote(Tail(refs))

\* no ref is listed twice
Distinct(refs) == \A i, j \in 1..Len(refs) : refs[i] = refs[j] => i = j

UnitRemoteLists == {LsRemote(r) : r \in {q \in SeqsUpTo(UnitRefs, MaxRefs) : Distinct(q)}}
CommitRemoteLists ==
    {LsRemote(r) : r \in {q \in SeqsUpTo(CommitRefs, MaxCommitRefs) : Distinct(q)}}
PrepareRemoteLists == {LsRemote(<<>>), LsRemote(<<REFS_HEADS_MASTER>>)}

----------------------------------------------------------------------------
(* Specifications *)

\* no call made, nothing asked, nothing written yet
NothingLogged ==
    /\ gitLog = <<>>
    /\ hostLog = <<>>
    /\ prompts = <<>>
    /\ writes = {}
    /\ build = <<>>
    /\ caught = NoStr
    /\ err = NULL

(* prepare() and publish(), invocation after invocation: the first Git      *)
(* object of a fresh cache, on a directory that is a local repository with  *)
(* its ignore file, or on one that is not yet a repository and has none.    *)
(* prepare() reads the refs of the remote in init() only, which it leaves   *)
(* at once on a directory that is a repository.                             *)
Init ==
    /\ pc = "constructed"
    /\ op = "none"
    /\ version = V_1_0_0
    /\ refreshToken \in BOOLEAN
    /\ refreshOwner \in BOOLEAN
    /\ refreshServer \in BOOLEAN
    /\ gitServer = NoServer
    /\ token = NULL
    /\ user = NULL
    /\ orgs = {}
    /\ owner = REPO_OWNER_USER
    /\ login = NULL
    /\ repo = NoRepo
    /\ remote = NoRemote
    /\ branch = NoStr
    /\ cache = [f \in CacheFiles |-> NULL]
    /\ gitDir \in BOOLEAN
    /\ originUrl = NoRemote
    /\ ignoreFile = gitDir
    /\ status = CleanStatus
    /\ stashList = 0
    /\ localBranches = IF gitDir THEN {MASTER} ELSE {}
    /\ currentBranch = IF gitDir THEN MASTER ELSE NoStr
    /\ staged = {}
    /\ commitOn = {}
    /\ remoteList \in (IF gitDir THEN {LsRemote(<<>>)} ELSE PrepareRemoteLists)
    /\ NothingLogged
    /\ run = 1
    /\ prev = NoPrev
    /\ type = NoStr
    /\ branchList = <<>>

Next ==
    \/ Construct
    \/ CheckHomePath
    \/ CheckGitServer
    \/ CheckGitToken
    \/ CheckUserAndOrgs
    \/ CheckGitOwner
    \/ CheckRepo
    \/ CheckGitIgnore
    \/ GitInit
    \/ CheckRemoteMaster
    \/ CheckConflicted
    \/ CheckNotCommitted
    \/ CommitMessage
    \/ PullRemoteRepo
    \/ PushRemoteRepo
    \/ Publish
    \/ CloudBuildPhase

Spec == Init /\ [][Next]_vars

\* a Git object on which prepare() has completed, with its cache
Prepared ==
    /\ refreshToken = FALSE
    /\ refreshOwner = FALSE
    /\ refreshServer = FALSE
    /\ gitServer = [type |-> GITHUB, token |-> "tok"]
    /\ token = "tok"
    /\ user = UserLogin(GITHUB)
    /\ orgs = {}
    /\ owner = REPO_OWNER_USER
    /\ login = UserLogin(GITHUB)
    /\ repo = [server |-> GITHUB, owner |-> UserLogin(GITHUB)]
    /\ remote = getRemote(gitServer, login)
    /\ cache = [f \in CacheFiles |->
                  CASE f = GIT_SERVER_FILE -> GITHUB
                    [] f = GIT_TOKEN_FILE -> "tok"
                    [] f = GIT_OWN_FILE -> REPO_OWNER_USER
                    [] f = GIT_LOGIN_FILE -> UserLogin(GITHUB)
                    [] OTHER -> NULL]
    /\ gitDir = TRUE
    /\ originUrl = remote
    /\ ignoreFile = TRUE
    /\ staged = {}
    /\ commitOn = {}
    /\ NothingLogged
    /\ run = 1
    /\ prev = NoPrev
    /\ branch = NoStr
    /\ branchList = <<>>

\* the states of the working tree the commit() runs start from
CommitStatuses ==
    {CleanStatus,
     [CleanStatus EXCEPT !.modified = {"f1"}],
     [CleanStatus EXCEPT !.not_added = {"f2"}, !.renamed = {"f1"}],
     [CleanStatus EXCEPT !.conflicted = {"f1"}, !.modified = {"f2"}]}

(* commit(): a prepared object; any version string, ref list of the remote, *)
(* working tree and stash; the version's branch exists locally or not, and  *)
(* is checked out or not.                                                   *)
InitCommit ==
    /\ Prepared
    /\ pc = "done"
    /\ op = "prepare"
    /\ type = NoStr
    /\ version \in Versions
    /\ remoteList \in CommitRemoteLists
    /\ status \in CommitStatuses
    /\ stashList \in {0, 1}
    /\ localBranches \in {{MASTER}, {MASTER, BranchName(NoStr, version)}}
    /\ currentBranch \in localBranches

NextCommit ==
    \/ Commit
    \/ GetCorrectVersion
    \/ CheckStash
    \/ CheckConflicted
    \/ CheckNotCommitted
    \/ CommitMessage
    \/ CheckoutBranch
    \/ PullRemoteRepo
    \/ CheckRemoteBranch
    \/ PushRemoteRepo

SpecCommit == InitCommit /\ [][NextCommit]_vars

(* Branch resolution alone: getCorrectVersion(type) and                     *)
(* getRemoteBranchList(type) for every channel, version string and ref list *)
Channels == {NoStr, VERSION_RELEASE, VERSION_DEVELOP}

InitBranch ==
    /\ Prepared
    /\ pc \in {"unit.getCorrectVersion", "unit.getRemoteBranchList"}
    /\ op = "unit"
    /\ type \in Channels
    /\ version \in Versions
    /\ remoteList \in UnitRemoteLists
    /\ status = CleanStatus
    /\ stashList = 0
    /\ localBranches = {MASTER}
    /\ currentBranch = MASTER

NextBranch ==
    \/ GetCorrectVersion
    \/ CheckRemoteBranch

SpecBranch == InitBranch /\ [][NextBranch]_vars

(* The conflict and staging checks alone: checkConflicted() and             *)
(* checkNotCommitted() for every status.                                    *)
Statuses == [DOMAIN CleanStatus -> SUBSET Paths]

InitGuard ==
    /\ Prepared
    /\ pc \in {"unit.checkConflicted", "unit.checkNotCommitted"}
    /\ op = "unit"
    /\ type = NoStr
    /\ version = V_1_0_0
    /\ remoteList = LsRemote(<<>>)
    /\ status \in Statuses
    /\ stashList = 0
    /\ localBranches = {MASTER}
    /\ currentBranch = MASTER

NextGuard ==
    \/ CheckConflicted
    \/ CheckNotCommitted
    \/ CommitMessage

SpecGuard == InitGuard /\ [][NextGuard]_vars

(* The same with an operator who answers every prompt: the awaited prompt   *)
(* resolves, and the loop takes its next turn.  The operator gives at most  *)
(* MaxEmptyAnswers empty answers, so a non-empty one comes in the end.      *)
SpecGuardFair == SpecGuard /\ WF_vars(CommitMessage)

----------------------------------------------------------------------------
(* Claims *)

\* this object was built with no refresh flag, after a prepare() that completed
RerunWithoutRefresh ==
    /\ op = "prepare"
    /\ prev.ok
    /\ ~refreshServer
    /\ ~refreshToken
    /\ ~refreshOwner

(* C1: after a prepare() that completed, a prepare() with no refresh flag   *)
(* asks nothing, writes no cache file and ends with the same platform,      *)
(* token, owner kind, login and remote URL, whatever the operator answered  *)
(* in the first one.                                                        *)
C1_SecondPrepareRepeatsFirst ==
    RerunWithoutRefresh =>
        /\ prompts = <<>>
        /\ writes \cap CacheFiles = {}
        /\ (pc = "done" => Context = prev.ctx)

\* some prompt of this operation is of that kind and has that answer
Asked(kind, answer) == \E i \in 1..Len(prompts) : prompts[i] = <<kind, answer>>

\* publish() is called in this step
PublishCalled == op # "publish" /\ op' = "publish"

\* in prepare(), a step whose refresh flag is forced asks and stores the answer
ForcedRefreshAsks ==
    op = "prepare" =>
        /\ (refreshServer /\ gitServer # NoServer) =>
              /\ Asked("server", gitServer.type)
              /\ cache[GIT_SERVER_FILE] = gitServer.type
        /\ (refreshToken /\ token # NULL) =>
              /\ Asked("token", token)
              /\ cache[GIT_TOKEN_FILE] = token
              /\ gitServer.token = token
        /\ (refreshOwner /\ login # NULL) =>
              /\ Asked("owner", owner)
              /\ owner = REPO_OWNER_ORG => Asked("login", login)
              /\ cache[GIT_OWN_FILE] = owner
              /\ cache[GIT_LOGIN_FILE] = login

(* C2, as amended: for the hosting platform, the token and the owner        *)
(* kind/login, a prepare() whose refresh flag of that category is forced    *)
(* asks the operator for it and overwrites the cached value with the        *)
(* answer, whatever the cache holds.  The publish target has no refresh     *)
(* flag: publish() asks for it exactly when none is cached, and otherwise   *)
(* uses the cached one and writes nothing.                                  *)
C2_ForcedRefreshPrompts ==
    /\ []ForcedRefreshAsks
    /\ [][PublishCalled =>
            IF Falsy(cache[GIT_PUBLISH_FILE])
            THEN /\ Len(prompts') = 1
                 /\ prompts'[1][1] = "publish"
                 /\ cache'[GIT_PUBLISH_FILE] = prompts'[1][2]
                 /\ build'[1] = <<"new", prompts'[1][2]>>
            ELSE /\ prompts' = <<>>
                 /\ cache' = cache
                 /\ build'[1] = <<"new", cache[GIT_PUBLISH_FILE]>>]_vars

(* C2 witness: the token is cached, an object is built with the token's     *)
(* refresh forced, and its prepare() has stored another answer.             *)
C2_Witness ==
    /\ op = "prepare"
    /\ refreshToken
    /\ prev.ok
    /\ prev.ctx.token = "tok"
    /\ token = ""
    /\ cache[GIT_TOKEN_FILE] = ""
    /\ pc = "done"

(* C2 as claimed: the publish target is a category like the others, so      *)
(* with every refresh flag of the object forced publish() asks for it.      *)
C2_AsClaimed ==
    /\ ForcedRefreshAsks
    /\ (op = "publish" /\ refreshServer /\ refreshToken /\ refreshOwner) =>
          Asked("publish", cache[GIT_PUBLISH_FILE])

\* the last pull of this operation: the branch it named
PullsLogged == {i \in 1..Len(gitLog) : gitLog[i][2] = "pull"}
LastPulled == gitLog[CHOOSE i \in PullsLogged : \A j \in PullsLogged : j <= i][3][1]

(* C3: a failed pull whose message holds 'Permission denied (publickey)'    *)
(* raises the SSH remediation error; one whose message holds "Couldn't find *)
(* remote ref <branch>" is skipped, pullRemoteRepo returns and the workflow *)
(* goes on; any other ends the process.                                     *)
C3_PullFailureClassified ==
    (caught # NoStr /\ PullsLogged # {}) =>
        IF Contains(caught, PERMISSION_DENIED)
        THEN pc = "failed" /\ err = "SSHKeyMissing"
        ELSE IF Contains(caught, COULDNT_FIND_REMOTE_REF \o LastPulled)
             THEN pc # "exited" /\ err # "SSHKeyMissing"
             ELSE pc = "exited"

\* the call of each entry of gitLog, with the branch a pull or a push names
Shape(e) ==
    IF e[2] = "pull" THEN <<e[1], e[2], e[3][1]>>
    ELSE IF e[2] \in {"push", "checkout", "checkoutLocalBranch"} THEN <<e[1], e[2], e[3]>>
    ELSE <<e[1], e[2]>>
Shapes == [i \in 1..Len(gitLog) |-> Shape(gitLog[i])]

IsPrefix(a, b) == Len(a) <= Len(b) /\ \A i \in 1..Len(a) : a[i] = b[i]

\* the orders of git calls the claimed sequence of commit() allows
ResolveCalls == <<(<<"getRemoteBranchList", "listRemote">>)>>
StashCalls ==
    {<<(<<"checkStash", "stashList">>)>>,
     <<(<<"checkStash", "stashList">>), (<<"checkStash", "stash">>)>>}
ConflictCalls == <<(<<"checkConflicted", "status">>)>>
StageCalls ==
    {<<(<<"checkNotCommitted", "status">>)>>,
     <<(<<"checkNotCommitted", "status">>)>>
        \o [i \in 1..Len(AddedLists) |-> <<"checkNotCommitted", "add">>]
        \o <<(<<"checkNotCommitted", "commit">>)>>}
CheckoutCalls ==
    {<<(<<"checkoutBranch", "branchLocal">>), (<<"checkoutBranch", c, branch>>)>> :
        c \in {"checkout", "checkoutLocalBranch"}}
PullCalls(b) == <<(<<"pullRemoteRepo", "pull", b>>)>> \o ConflictCalls
VersionPullCalls == {<<>>, PullCalls(branch)}
PushCalls == <<(<<"pushRemoteRepo", "push", branch>>)>>
CommitOrders ==
    {ResolveCalls \o st \o ConflictCalls \o sg \o co \o PullCalls(MASTER)
        \o ResolveCalls \o vp \o PushCalls :
        st \in StashCalls, sg \in StageCalls, co \in CheckoutCalls,
        vp \in VersionPullCalls}

PushesLogged == {i \in 1..Len(gitLog) : gitLog[i][2] = "push"}
ConflictChecksLogged == {i \in 1..Len(gitLog) : gitLog[i][1] = "checkConflicted"}

(* C4: in every run of commit() the git calls made so far are the start of  *)
(* the fixed order resolve, stash, conflict check, stage and commit,        *)
(* checkout, pull master, conflict check, optional pull of the version      *)
(* branch with its conflict check, push; a run that ends normally made the  *)
(* whole of it.  The push is made at most once, as the last call, after a   *)
(* conflict check that follows the last pull, and never in a run where a    *)
(* conflict check found a conflicted path.                                  *)
C4_CommitOrder ==
    op = "commit" =>
        /\ \E full \in CommitOrders : IsPrefix(Shapes, full)
        /\ pc = "done" => Shapes \in CommitOrders
        /\ Cardinality(PushesLogged) <= 1
        /\ \A i \in PushesLogged :
              /\ i = Len(gitLog)
              /\ PullsLogged # {}
              /\ \E c \in ConflictChecksLogged :
                    c < i /\ \A j \in PullsLogged : j < c
              /\ \A j \in ConflictChecksLogged : gitLog[j][3] = {}

(* C4 witness: a commit() that popped the stash, committed pending changes, *)
(* pulled master and the version branch, and pushed.                        *)
C4_Witness ==
    /\ op = "commit"
    /\ pc = "done"
    /\ Cardinality(PullsLogged) = 2
    /\ Cardinality(PushesLogged) = 1
    /\ \E i \in 1..Len(gitLog) : gitLog[i][2] = "stash"
    /\ \E i \in 1..Len(gitLog) : gitLog[i][2] = "commit"

\* a pull of the version branch was made, and a conflict check after it
VersionBranchPulled ==
    \E i \in PullsLogged :
        /\ gitLog[i][3][1] = BranchName(NoStr, version)
        /\ \E j \in ConflictChecksLogged : j > i

(* C5: when commit() is about to push, the version branch dev/<v> was       *)
(* pulled, with a conflict check after the pull, if the remote ref list has *)
(* a ref refs/heads/dev/<v> for the current version <v>, and was not pulled *)
(* if the list has no such ref.                                             *)
C5_VersionBranchPulledIffListed ==
    (op = "commit" /\ pc = "commit.push") =>
        (RemoteHasRef(remoteList, REFS_HEADS_DEV \o version) <=> VersionBranchPulled)

\* the calls init() and initCommit() have logged
Logged(by, call) == {i \in 1..Len(gitLog) : gitLog[i][1] = by /\ gitLog[i][2] = call}
InitCompleted == op = "prepare" /\ pc = "done" /\ Logged("init", "init") # {}

(* C6: when the init step of prepare() ran on a directory without a local   *)
(* repository and completed, the repository exists, origin is registered    *)
(* (added with the resolved URL only when not already present), the         *)
(* conflict check and the staging/commit sequence ran, and master was       *)
(* pushed to origin; a pull of master with allow-unrelated-histories was    *)
(* made before that push if the remote had refs/heads/master, and no pull   *)
(* was made if it had not.                                                  *)
C6_InitPushesMaster ==
    InitCompleted =>
        /\ gitDir
        /\ originUrl # NoRemote
        /\ \A i \in Logged("init", "addRemote") : gitLog[i][3] = remote
        /\ Logged("checkConflicted", "status") # {}
        /\ Logged("checkNotCommitted", "status") # {}
        /\ \E i \in PushesLogged : gitLog[i][3] = MASTER
        /\ \A k \in Logged("checkRemoteMaster", "listRemote") :
              IF RemoteHasRef(gitLog[k][3], REFS_HEADS_MASTER)
              THEN \E i \in PullsLogged, j \in PushesLogged :
                      /\ gitLog[i][3] = <<MASTER, ALLOW_UNRELATED_HISTORIES>>
                      /\ i < j
              ELSE PullsLogged = {}

\* the versions of the lines that match the channel's pattern, line by line
RECURSIVE VersionsOfLines(_, _)
VersionsOfLines(lines, literal) ==
    IF lines = <<>>
    THEN <<>>
    ELSE LET m == RegExec(literal, Head(lines), 0)
         IN  (IF m.match /\ semverValid(m.group1) # NoStr THEN <<m.group1>> ELSE <<>>)
                \o VersionsOfLines(Tail(lines), literal)

BranchListReturned ==
    op = "unit" /\ pc = "done" /\ Logged("getRemoteBranchList", "listRemote") # {}

(* C7: getRemoteBranchList(type) returns exactly the versions of the lines  *)
(* of the ref list that match the channel's pattern and whose version is a  *)
(* well-formed semantic version: each such line gives its version, in line  *)
(* order, and no other line gives anything.                                 *)
C7_BranchListIsMatchingLines ==
    BranchListReturned =>
        branchList = VersionsOfLines(SplitLines(remoteList), RefLiteral(type))

BranchResolved ==
    op = "unit" /\ pc = "done" /\ Logged("getRemoteBranchList", "listRemote") # {}
        /\ branch # NoStr

(* C8: getCorrectVersion(type) resolves the branch release/V for the        *)
(* release channel and dev/V for an omitted channel, and for a version      *)
(* string that is not a valid semantic version the branch is never set to   *)
(* a name that contains that string.                                        *)
C8_BranchNameFromValidVersion ==
    BranchResolved =>
        /\ (type = VERSION_RELEASE /\ semverValid(version) # NoStr) =>
              branch = VERSION_RELEASE \o <<"/">> \o version
        /\ (type = NoStr /\ semverValid(version) # NoStr) =>
              branch = VERSION_DEVELOP \o <<"/">> \o version
        /\ semverValid(version) = NoStr => ~Contains(branch, version)

\* the five lists of pending changes, and the calls checkNotCommitted made
PendingLists == <<"not_added", "created", "deleted", "modified", "renamed">>
StatusRead == gitLog[1][3]
Adds == Logged("checkNotCommitted", "add")
Commits == Logged("checkNotCommitted", "commit")
NotCommittedCalled == op = "unit" /\ Logged("checkNotCommitted", "status") # {}

(* C9: checkNotCommitted makes no add, no prompt and no commit when the     *)
(* lists not_added, created, deleted, modified and renamed of the status    *)
(* are all empty; for any other status it adds each of the five lists, so   *)
(* every path of them, and then, once it returns, has made exactly one      *)
(* commit, after the adds.                                                  *)
C9_StageAndCommitOnce ==
    NotCommittedCalled =>
        IF \A i \in 1..Len(PendingLists) : StatusRead[PendingLists[i]] = {}
        THEN /\ Len(gitLog) = 1
             /\ prompts = <<>>
             /\ pc = "done"
        ELSE /\ Len(gitLog) > Len(PendingLists)
             /\ \A i \in 1..Len(PendingLists) :
                   gitLog[1 + i] = <<"checkNotCommitted", "add", StatusRead[PendingLists[i]]>>
             /\ Cardinality(Adds) = Len(PendingLists)
             /\ Cardinality(Commits) <= 1
             /\ \A c \in Commits : \A a \in Adds : a < c
             /\ pc = "done" <=> Cardinality(Commits) = 1
             /\ pc = "done" =>
                   \A i \in 1..Len(PendingLists) : status[PendingLists[i]] = {}

(* C9 witness: checkNotCommitted returned after it found only renamed paths *)
(* pending, asked for the message more than once and committed.             *)
C9_Witness ==
    /\ NotCommittedCalled
    /\ pc = "done"
    /\ StatusRead.renamed # {}
    /\ \A i \in 1..4 : StatusRead[PendingLists[i]] = {}
    /\ Len(prompts) > 1
    /\ Commits # {}

ConflictedCalled == op = "unit" /\ Logged("checkConflicted", "status") # {}

(* C10: checkConflicted raises the unresolved-conflict error for a status   *)
(* with at least one conflicted path and returns normally for a status      *)
(* with none; it reads the status and does nothing else: no other git call, *)
(* no prompt, no change of the working tree.                                *)
C10_ConflictedRaises ==
    /\ [](ConflictedCalled =>
            /\ IF status.conflicted # {}
               THEN pc = "failed" /\ err = "UnresolvedConflict"
               ELSE pc = "done" /\ err = NULL
            /\ gitLog = <<(<<"checkConflicted", "status", status.conflicted>>)>>
            /\ prompts = <<>>)
    /\ [][pc = "unit.checkConflicted" => UNCHANGED <<localVars, remoteList>>]_vars

(* C10 witness: checkConflicted raised on a status with a single conflicted *)
(* path.                                                                    *)
C10_Witness ==
    /\ ConflictedCalled
    /\ Cardinality(status.conflicted) = 1
    /\ pc = "failed"

\* the calls of that name made on the hosting platform by this operation
HostCalls(name) == {i \in 1..Len(hostLog) : hostLog[i][1] = name}
PromptsOf(kind) == {i \in 1..Len(prompts) : prompts[i][1] = kind}

IdentityMissing ==
    op = "prepare" /\ \E i \in HostCalls("getUser") : hostLog[i][3] = NULL

(* C11: when getUser returns null in prepare(), prepare fails with the      *)
(* identity error and no later step runs: no owner or login prompt, no      *)
(* write of the owner, login or ignore file, no getRepo, createRepo or      *)
(* createOrgRepo call, and no local git operation.                          *)
C11_NoIdentityStopsPrepare ==
    IdentityMissing =>
        /\ pc = "failed"
        /\ err = "IdentityResolutionFailed"
        /\ PromptsOf("owner") \cup PromptsOf("login") = {}
        /\ writes \cap {GIT_OWN_FILE, GIT_LOGIN_FILE, GIT_IGNORE_FILE} = {}
        /\ HostCalls("getRepo") \cup HostCalls("createRepo")
              \cup HostCalls("createOrgRepo") = {}
        /\ gitLog = <<>>
        /\ remote = NoRemote
        /\ login = NULL

(* C11 witness: prepare() asked for the token, getUser returned null and    *)
(* prepare failed.                                                          *)
C11_Witness ==
    /\ IdentityMissing
    /\ PromptsOf("token") # {}
    /\ pc = "failed"

Lookups == HostCalls("getRepo")
Creations == HostCalls("createRepo") \cup HostCalls("createOrgRepo")

(* C12: checkRepo makes a creation call only right after a getRepo(login)   *)
(* that returned nothing, and then always makes it: createRepo when the     *)
(* owner kind is personal, createOrgRepo with the login when it is          *)
(* organization, at most one per prepare.  When the creation returns        *)
(* nothing prepare fails with the repository-creation error and neither the *)
(* ignore-file step nor init runs; otherwise this.repo is the descriptor    *)
(* the lookup or the creation returned.                                     *)
C12_CreateOnlyWhenAbsent ==
    op = "prepare" =>
        /\ Cardinality(Lookups) <= 1
        /\ Cardinality(Creations) <= 1
        /\ \A i \in Lookups :
              /\ hostLog[i][2] = login
              /\ IF hostLog[i][3] = NoRepo
                 THEN i + 1 \in Creations
                 ELSE Creations = {} /\ repo = hostLog[i][3]
        /\ \A c \in Creations :
              /\ c - 1 \in Lookups
              /\ hostLog[c - 1][3] = NoRepo
              /\ IF owner = REPO_OWNER_USER
                 THEN hostLog[c][1] = "createRepo"
                 ELSE hostLog[c][1] = "createOrgRepo" /\ hostLog[c][2] = login
              /\ IF hostLog[c][3] = NoRepo
                 THEN /\ pc = "failed"
                      /\ err = "RemoteRepoCreationFailed"
                      /\ GIT_IGNORE_FILE \notin writes
                      /\ gitLog = <<>>
                      /\ remote = NoRemote
                 ELSE repo = hostLog[c][3]

(* C12 witness: for an organization owner the lookup found nothing, the     *)
(* repository was created under the organization, and prepare went on.      *)
C12_Witness ==
    /\ op = "prepare"
    /\ owner = REPO_OWNER_ORG
    /\ HostCalls("createOrgRepo") # {}
    /\ repo # NoRepo
    /\ pc = "done"

(* C13: checkGitOwner uses the cached owner kind and login, and asks        *)
(* nothing, exactly when both are cached and refreshOwner is not set.       *)
(* Otherwise it asks for the owner kind, where organization can be chosen   *)
(* only if the account has an organization; personal sets the login to the  *)
(* user's, organization to one of the account's organizations, picked at a  *)
(* second prompt; and it writes both to the cache.                          *)
C13_OwnerResolution ==
    [][pc = "checkGitOwner" =>
        IF ~Falsy(cache[GIT_OWN_FILE]) /\ ~Falsy(cache[GIT_LOGIN_FILE]) /\ ~refreshOwner
        THEN /\ prompts' = prompts
             /\ owner' = cache[GIT_OWN_FILE]
             /\ login' = cache[GIT_LOGIN_FILE]
             /\ cache' = cache
             /\ writes' = writes
        ELSE /\ Len(prompts') > Len(prompts)
             /\ prompts'[Len(prompts) + 1] = <<"owner", owner'>>
             /\ IF owner' = REPO_OWNER_USER
                THEN /\ login' = user
                     /\ Len(prompts') = Len(prompts) + 1
                ELSE /\ owner' = REPO_OWNER_ORG
                     /\ orgs # {}
                     /\ login' \in orgs
                     /\ Len(prompts') = Len(prompts) + 2
                     /\ prompts'[Len(prompts) + 2] = <<"login", login'>>
             /\ cache'[GIT_OWN_FILE] = owner'
             /\ cache'[GIT_LOGIN_FILE] = login'
             /\ {GIT_OWN_FILE, GIT_LOGIN_FILE} \subseteq writes'
             /\ \A f \in CacheFiles \ {GIT_OWN_FILE, GIT_LOGIN_FILE} :
                   cache'[f] = cache[f]]_vars

(* C13 witness: with the pair cached and refreshOwner set, the operator was *)
(* asked again and picked an organization at the second prompt.             *)
C13_Witness ==
    /\ op = "prepare"
    /\ pc = "checkRepo"
    /\ refreshOwner
    /\ prev.ok
    /\ owner = REPO_OWNER_ORG
    /\ login \in orgs
    /\ Asked("login", login)
    /\ cache[GIT_LOGIN_FILE] = login

\* the phases of the build, as the claim orders them, and those run so far
PhasesClaimed == <<"cloudBuild.prepare", "cloudBuild.init", "cloudBuild.build">>
PhasesRun == Len(build) - 1

(* C14: publish() asks for the publish target exactly when none is cached,  *)
(* once, and has written the answer to the cache when the build             *)
(* collaborator is made; with a cached target it asks nothing and uses it.  *)
(* The phases prepare(), init(), build() of the collaborator then run in    *)
(* that order, each at most once and only after the one before completed;   *)
(* a phase that fails is the last to run, and publish() returns exactly     *)
(* when all three have completed.                                           *)
C14_PublishPhases ==
    /\ [](op = "publish" =>
            /\ Len(build) >= 1
            /\ build[1] = <<"new", cache[GIT_PUBLISH_FILE]>>
            /\ cache[GIT_PUBLISH_FILE] \in GIT_PUBLISH_TYPE
            /\ prompts \in {<<>>, <<(<<"publish", cache[GIT_PUBLISH_FILE]>>)>>}
            /\ writes = (IF prompts = <<>> THEN {} ELSE {GIT_PUBLISH_FILE})
            /\ PhasesRun <= Len(PhasesClaimed)
            /\ \A i \in 1..PhasesRun :
                  /\ build[i + 1][1] = PhasesClaimed[i]
                  /\ i < PhasesRun => build[i + 1][2]
                  /\ ~build[i + 1][2] => pc = "failed" /\ err = "BuildFailed"
            /\ pc = "done" <=>
                  (PhasesRun = Len(PhasesClaimed) /\ build[PhasesRun + 1][2])
            /\ (pc \notin {"done", "failed"}) =>
                  (PhasesRun < Len(PhasesClaimed) /\ pc = PhasesClaimed[PhasesRun + 1]))
    /\ [][PublishCalled =>
            /\ prompts' = <<>> <=> ~Falsy(cache[GIT_PUBLISH_FILE])
            /\ ~Falsy(cache[GIT_PUBLISH_FILE]) => cache' = cache
            /\ Len(build') = 1]_vars

(* C14 witness: a publish() that found the target cached by an earlier one  *)
(* and ran the three phases to the end.                                     *)
C14_Witness ==
    /\ op = "publish"
    /\ pc = "done"
    /\ prompts = <<>>
    /\ PhasesRun = 3
    /\ run > 1

\* no change of the working tree is left to commit
NothingPending(st) == \A i \in 1..Len(PendingLists) : st[PendingLists[i]] = {}

(* C15: when an earlier prepare() stopped inside the init step, after the   *)
(* local repository was created, a later prepare() that completes leaves    *)
(* the repository with origin registered at the resolved URL, the initial   *)
(* commit made and master pushed to origin.                                 *)
C15_RerunCompletesInit ==
    (op = "prepare" /\ pc = "done" /\ prev.partialInit) =>
        /\ gitDir
        /\ originUrl = remote
        /\ NothingPending(status)
        /\ RemoteHasBranch(remoteList, MASTER)

\* the answers given to the commit-message prompt so far
LastAnswer == prompts[Len(prompts)][2]
EarlierAnswersEmpty == \A i \in 1..(Len(prompts) - 1) : prompts[i][2] = ""

(* C16: on a dirty working tree checkNotCommitted is back at the prompt     *)
(* after every empty answer and commits nothing on it; the message of its   *)
(* commit is never empty and is the first non-empty answer; and with an     *)
(* operator who ends up giving a non-empty answer, the prompt loop ends     *)
(* with that commit made and checkNotCommitted returned.                    *)
C16_PromptUntilMessage ==
    /\ [](NotCommittedCalled =>
            /\ \A c \in Commits :
                  /\ prompts # <<>>
                  /\ gitLog[c][3] # ""
                  /\ gitLog[c][3] = LastAnswer
                  /\ EarlierAnswersEmpty
                  /\ pc = "done"
            /\ (prompts # <<>> /\ LastAnswer = "") =>
                  (pc = "unit.message" /\ Commits = {} /\ EarlierAnswersEmpty)
            /\ Cardinality(Commits) <= 1)
    /\ (pc = "unit.message") ~> (pc = "done" /\ Commits # {})

(* C16 witness: the operator answered with an empty message, was asked      *)
(* again, answered "msg", and the commit was made with "msg".               *)
C16_Witness ==
    /\ NotCommittedCalled
    /\ prompts = <<(<<"message", "">>), (<<"message", "msg">>)>>
    /\ \E c \in Commits : gitLog[c][3] = "msg"
    /\ pc = "done"

(* C17: after a commit() that returned, the commit it made of the pending   *)
(* changes is in the history of the resolved branch, the one it pushed,     *)
(* whatever branch was checked out at the start and whether or not the      *)
(* resolved branch existed locally.                                         *)
C17_CommitOnPushedBranch ==
    (op = "commit" /\ pc = "done" /\ Commits # {}) =>
        /\ \E i \in PushesLogged : gitLog[i][3] = branch
        /\ branch \in commitOn

(* C18: in every prepare() that completes, the login used to look up or     *)
(* create the remote repository is the login of the user authenticated on   *)
(* the selected platform or of one of that user's organizations, and the    *)
(* owner kind is personal exactly when the login is the user's own.         *)
C18_LoginOfCurrentAccount ==
    (op = "prepare" /\ pc = "done") =>
        /\ \A i \in Lookups : hostLog[i][2] = login
        /\ login \in {user} \cup orgs
        /\ owner = REPO_OWNER_USER <=> login = user

(* C19: a token entered at the prompt is in the cache when the identity     *)
(* lookup then fails; and the prepare() of the next object, built without   *)
(* refreshToken, does not ask for the token and binds that same token to    *)
(* the client.                                                              *)
C19_RejectedTokenStaysCached ==
    /\ TokenRejected => cache[GIT_TOKEN_FILE] = token
    /\ (op = "prepare" /\ prev.rejected # NULL /\ ~refreshToken) =>
          /\ PromptsOf("token") = {}
          /\ cache[GIT_TOKEN_FILE] = prev.rejected
          /\ token # NULL => (token = prev.rejected /\ gitServer.token = prev.rejected)

(* C20: in a prepare() that follows a completed one, so that every category *)
(* has its cache entry, a category whose own refresh flag is not forced is  *)
(* neither asked for nor written, whatever the other flags are: its cached  *)
(* value stays as it was and is the one prepare() uses.  (An entry is       *)
(* present when it reads back as a value, which the empty string is not.)   *)
C20_RefreshFlagsIndependent ==
    (op = "prepare" /\ prev.ok) =>
        /\ ~refreshServer =>
              /\ PromptsOf("server") = {}
              /\ GIT_SERVER_FILE \notin writes
              /\ cache[GIT_SERVER_FILE] = prev.ctx.server
              /\ gitServer # NoServer => gitServer.type = prev.ctx.server
        /\ (~refreshToken /\ ~Falsy(prev.ctx.token)) =>
              /\ PromptsOf("token") = {}
              /\ GIT_TOKEN_FILE \notin writes
              /\ cache[GIT_TOKEN_FILE] = prev.ctx.token
              /\ token # NULL => (token = prev.ctx.token /\ gitServer.token = token)
        /\ ~refreshOwner =>
              /\ PromptsOf("owner") \cup PromptsOf("login") = {}
              /\ writes \cap {GIT_OWN_FILE, GIT_LOGIN_FILE} = {}
              /\ cache[GIT_OWN_FILE] = prev.ctx.owner
              /\ cache[GIT_LOGIN_FILE] = prev.ctx.login
              /\ login # NULL => (owner = prev.ctx.owner /\ login = prev.ctx.login)

(* C20 witness: a prepare() with only the token's refresh forced completed: *)
(* it asked for the token alone and used the cached platform and owner.     *)
C20_Witness ==
    /\ op = "prepare"
    /\ pc = "done"
    /\ prev.ok
    /\ refreshToken /\ ~refreshServer /\ ~refreshOwner
    /\ Len(prompts) = 1
    /\ PromptsOf("token") = {1}
    /\ writes \cap CacheFiles = {GIT_TOKEN_FILE}
    /\ gitServer.type = prev.ctx.server
    /\ login = prev.ctx.login

====
